---- MODULE Spec2Model ----
(***************************************************************************)
(* Model of the real-estate listing API of src/main.py: the search handler *)
(* list_properties (filter compilation, store query, response              *)
(* normalisation through PropertyResponse) and the create handler          *)
(* create_property, over a document store.                                 *)
(*                                                                         *)
(* Python values are tagged records, so that None, 0, "" and [] stay       *)
(* distinct: None, IntV(n), FloatV(h), StrV(s), ListV(l), Oid(n).  A       *)
(* string is a sequence of one-character strings.  A float is held as its  *)
(* number of halves (1.5 is FloatV(3)), which is exact for the values used.*)
(***************************************************************************)
EXTENDS Integers, Sequences, FiniteSets, TLC

VARIABLES db, store, nextId, lastReq, lastResp

vars == <<db, store, nextId, lastReq, lastResp>>

(***************************************************************************)
(* Bounds of the model.                                                    *)
(***************************************************************************)
\* the create handler is not taken once the store holds this many documents
MaxStore == 2
\* the store holds at most this many documents when the process starts
MaxLegacy == 1

(***************************************************************************)
(* Python values.                                                          *)
(***************************************************************************)
None == [k |-> "None"]
IntV(n) == [k |-> "int", v |-> n]
FloatV(h) == [k |-> "float", v |-> h]
StrV(s) == [k |-> "str", v |-> s]
ListV(l) == [k |-> "list", v |-> l]
Oid(n) == [k |-> "oid", v |-> n]

EmptyDict == [x \in {} |-> None]

IsNum(v) == v.k \in {"int", "float"}
\* the numeric value of an int or a float, in halves
Num(v) == IF v.k = "int" THEN 2 * v.v ELSE v.v

\* d.get(key) and d.get(key, default) of a raw document
Get(d, key) == IF key \in DOMAIN d THEN d[key] ELSE None
GetD(d, key, default) == IF key \in DOMAIN d THEN d[key] ELSE default

DigitChar(n) == CASE n = 0 -> "0" [] n = 1 -> "1" [] n = 2 -> "2" [] n = 3 -> "3"
                  [] n = 4 -> "4" [] n = 5 -> "5" [] n = 6 -> "6" [] n = 7 -> "7"
                  [] n = 8 -> "8" [] OTHER -> "9"

\* str(x) for the values _id can take: an ObjectId prints as its digits, None as "None"
ToStr(x) == IF x = None THEN StrV(<<"N", "o", "n", "e">>)
            ELSE IF x.k = "oid" THEN StrV(<<"#", DigitChar(x.v)>>)
            ELSE x

\* the mutant of Truthy: "is not None" in place of the truth test
TruthyIsNotNone(x) == x # None

\* Python's truth test of an Optional[str] parameter: None and "" are false
Truthy(x) == x # None /\ ~(x.k = "str" /\ x.v = <<>>)

(***************************************************************************)
(* Regular expressions, as the store evaluates a $regex condition.  The    *)
(* pattern is the text the handler built, not escaped: "." stands for any  *)
(* character, a leading "^" and a trailing "$" anchor the match, every     *)
(* other character of the model's alphabet stands for itself, and option   *)
(* "i" compares letters without case.                                      *)
(***************************************************************************)
LowerOf == [A |-> "a", B |-> "b", H |-> "h"]
Lower(c) == IF c \in DOMAIN LowerOf THEN LowerOf[c] ELSE c

CharMatches(p, c, options) ==
    \/ p = "."
    \/ IF options = "i" THEN Lower(p) = Lower(c) ELSE p = c

MatchAt(body, s, off, options) ==
    /\ off + Len(body) <= Len(s)
    /\ \A i \in 1..Len(body) : CharMatches(body[i], s[off + i], options)

RegexMatches(pat, s, options) ==
    LET anchoredStart == Len(pat) > 0 /\ pat[1] = "^"
        p1 == IF anchoredStart THEN Tail(pat) ELSE pat
        anchoredEnd == Len(p1) > 0 /\ p1[Len(p1)] = "$"
        body == IF anchoredEnd THEN SubSeq(p1, 1, Len(p1) - 1) ELSE p1
    IN \E off \in 0..Len(s) :
          /\ MatchAt(body, s, off, options)
          /\ anchoredStart => off = 0
          /\ anchoredEnd => off + Len(body) = Len(s)

(***************************************************************************)
(* The filter compiler: list_properties builds filter_query from the       *)
(* parameters of the request r.                                            *)
(***************************************************************************)
Regex(pat, options) == ("$regex" :> pat) @@ ("$options" :> options)

\* f"^{x}$"
Anchored(s) == <<"^">> \o s \o <<"$">>

OrFilter(r) ==
    IF Truthy(r.q)
    THEN "$or" :> << "title" :> Regex(r.q.v, "i"),
                     "city" :> Regex(r.q.v, "i"),
                     "state" :> Regex(r.q.v, "i"),
                     "address" :> Regex(r.q.v, "i") >>
    ELSE EmptyDict

\* the mutant of PriceFilter: "elif" in place of the second "if", so that
\* max_price is dropped when min_price is given
PriceFilterElif(r) ==
    IF r.min_price # None THEN "$gte" :> r.min_price
    ELSE IF r.max_price # None THEN "$lte" :> r.max_price
    ELSE EmptyDict

PriceFilter(r) ==
    (IF r.min_price # None THEN "$gte" :> r.min_price ELSE EmptyDict)
    @@ (IF r.max_price # None THEN "$lte" :> r.max_price ELSE EmptyDict)

FilterQuery(r) ==
    ("status" :> r.status)
    @@ OrFilter(r)
    @@ (IF r.min_price # None \/ r.max_price # None
        THEN "price" :> PriceFilter(r) ELSE EmptyDict)
    @@ (IF r.bedrooms # None THEN "bedrooms" :> ("$gte" :> r.bedrooms) ELSE EmptyDict)
    @@ (IF r.bathrooms # None THEN "bathrooms" :> ("$gte" :> r.bathrooms) ELSE EmptyDict)
    @@ (IF Truthy(r.city)
        THEN "city" :> Regex(Anchored(r.city.v), "i") ELSE EmptyDict)
    @@ (IF Truthy(r.state)
        THEN "state" :> Regex(Anchored(r.state.v), "i") ELSE EmptyDict)
    @@ (IF Truthy(r.property_type)
        THEN "property_type" :> Regex(Anchored(r.property_type.v), "i") ELSE EmptyDict)

(***************************************************************************)
(* The store: find(filter).limit(n) over the documents in insertion order. *)
(* A condition on a field holds only of a document that has the field,     *)
(* with a value of the condition's type.                                   *)
(***************************************************************************)
MatchCond(cond, d, field) ==
    IF "$regex" \in DOMAIN cond
    THEN /\ field \in DOMAIN d
         /\ d[field].k = "str"
         /\ RegexMatches(cond["$regex"], d[field].v, cond["$options"])
    ELSE IF DOMAIN cond \subseteq {"$gte", "$lte"}
    THEN /\ field \in DOMAIN d
         /\ IsNum(d[field])
         /\ "$gte" \in DOMAIN cond => Num(d[field]) >= Num(cond["$gte"])
         /\ "$lte" \in DOMAIN cond => Num(d[field]) <= Num(cond["$lte"])
    ELSE field \in DOMAIN d /\ d[field] = cond

MatchesFilter(fq, d) ==
    \A key \in DOMAIN fq :
        IF key = "$or"
        THEN \E i \in 1..Len(fq[key]) :
                \A f \in DOMAIN fq[key][i] : MatchCond(fq[key][i][f], d, f)
        ELSE MatchCond(fq[key], d, key)

Min(a, b) == IF a <= b THEN a ELSE b

Matching(docs, fq) == SelectSeq(docs, LAMBDA d : MatchesFilter(fq, d))

Find(docs, fq, limit) ==
    LET m == Matching(docs, fq) IN SubSeq(m, 1, Min(limit, Len(m)))

(***************************************************************************)
(* The response normaliser: the arguments list_properties passes to        *)
(* PropertyResponse for one raw document, and the model's validation.      *)
(***************************************************************************)
USD == StrV(<<"U", "S", "D">>)
USA == StrV(<<"U", "S", "A">>)
House == StrV(<<"h", "o", "u", "s", "e">>)

Kwargs(d) ==
    [ id |-> ToStr(Get(d, "_id")),
      title |-> Get(d, "title"),
      status |-> Get(d, "status"),
      price |-> Get(d, "price"),
      currency |-> GetD(d, "currency", USD),
      address |-> Get(d, "address"),
      city |-> Get(d, "city"),
      state |-> Get(d, "state"),
      country |-> GetD(d, "country", USA),
      bedrooms |-> GetD(d, "bedrooms", IntV(0)),
      bathrooms |-> GetD(d, "bathrooms", FloatV(0)),
      property_type |-> GetD(d, "property_type", House),
      area_sqft |-> Get(d, "area_sqft"),
      lot_size_sqft |-> Get(d, "lot_size_sqft"),
      year_built |-> Get(d, "year_built"),
      parking_spaces |-> Get(d, "parking_spaces"),
      hoa_fee |-> Get(d, "hoa_fee"),
      description |-> Get(d, "description"),
      images |-> GetD(d, "images", ListV(<<>>)),
      features |-> GetD(d, "features", ListV(<<>>)) ]

\* the declared type of each field of PropertyResponse
StrFields == {"id", "title", "status", "currency", "address", "city", "country",
              "property_type"}
OptStrFields == {"state", "description"}
IntFields == {"price", "bedrooms"}
FloatFields == {"bathrooms"}
OptIntFields == {"area_sqft", "lot_size_sqft", "year_built", "parking_spaces", "hoa_fee"}
ListFields == {"images", "features"}

\* an int field takes an int, or a float with no fractional part
IntOk(v) == v.k = "int" \/ (v.k = "float" /\ v.v % 2 = 0)

\* the mutant of FieldOk: bedrooms, bathrooms, images and features declared Optional
FieldOkOptional(name, v) ==
    \/ name \in StrFields /\ v.k = "str"
    \/ name \in OptStrFields /\ (v = None \/ v.k = "str")
    \/ name \in IntFields /\ (IntOk(v) \/ (name = "bedrooms" /\ v = None))
    \/ name \in FloatFields /\ (IsNum(v) \/ v = None)
    \/ name \in OptIntFields /\ (v = None \/ IntOk(v))
    \/ name \in ListFields /\ (v.k = "list" \/ v = None)

FieldOk(name, v) ==
    \/ name \in StrFields /\ v.k = "str"
    \/ name \in OptStrFields /\ (v = None \/ v.k = "str")
    \/ name \in IntFields /\ IntOk(v)
    \/ name \in FloatFields /\ IsNum(v)
    \/ name \in OptIntFields /\ (v = None \/ IntOk(v))
    \/ name \in ListFields /\ v.k = "list"

Valid(kw) == \A name \in DOMAIN kw : FieldOk(name, kw[name])

\* the value a validated field holds: numbers are converted to the declared type
Coerce(name, v) ==
    IF v = None \/ ~IsNum(v) THEN v
    ELSE IF name \in FloatFields THEN FloatV(Num(v))
    ELSE IntV(Num(v) \div 2)

PropertyResponse(kw) == [name \in DOMAIN kw |-> Coerce(name, kw[name])]

(***************************************************************************)
(* Requests.  The declared bounds of the query parameters (ge=0, ge=1,     *)
(* le=200) are checked before the handler runs.                            *)
(***************************************************************************)
LimitMin == 1
LimitMax == 200
LimitDefault == 50

Sale == StrV(<<"s", "a", "l", "e">>)
Rent == StrV(<<"r", "e", "n", "t">>)

\* the parameters of one GET /properties request
Req(q, lo, hi, beds, baths, city, state, ptype, status, limit) ==
    [ op |-> "list", q |-> q, min_price |-> lo, max_price |-> hi,
      bedrooms |-> beds, bathrooms |-> baths, city |-> city,
      state |-> state, property_type |-> ptype, status |-> status,
      limit |-> limit ]

GeZero(v) == v = None \/ Num(v) >= 0

ParamsValid(r) ==
    /\ GeZero(r.min_price) /\ GeZero(r.max_price)
    /\ GeZero(r.bedrooms) /\ GeZero(r.bathrooms)
    /\ r.limit.v >= LimitMin /\ r.limit.v <= LimitMax

\* the response of list_properties to request r, with the store holding docs
ListResponse(database, docs, r) ==
    IF ~ParamsValid(r) THEN [code |-> 422, detail |-> "validation"]
    ELSE IF database = None THEN [code |-> 500, detail |-> "Database not available"]
    ELSE LET found == Find(docs, FilterQuery(r), r.limit.v)
             kws == [i \in 1..Len(found) |-> Kwargs(found[i])]
         IN IF \E i \in 1..Len(found) : ~Valid(kws[i])
            THEN [code |-> 500, detail |-> "ValidationError"]
            ELSE [code |-> 200,
                  body |-> [i \in 1..Len(found) |-> PropertyResponse(kws[i])]]

(***************************************************************************)
(* The inputs of the model.                                                *)
(***************************************************************************)
\* a Property payload: every field of the schema, the optional ones None
Property(title, status, price, address, city, state, beds, baths, ptype, area, images) ==
    [ title |-> StrV(title), status |-> status, price |-> IntV(price),
      currency |-> USD, address |-> StrV(address), city |-> StrV(city),
      state |-> state, country |-> USA, bedrooms |-> IntV(beds),
      bathrooms |-> FloatV(baths), property_type |-> ptype,
      area_sqft |-> area, lot_size_sqft |-> None, year_built |-> None,
      parking_spaces |-> None, hoa_fee |-> None, description |-> None,
      images |-> ListV(images), features |-> ListV(<<>>) ]

\* the payloads of create_property: complete Property values
Payloads ==
    { Property(<<"a", ".">>, Sale, 2, <<"b">>, <<"A", "b">>, None, 2, 3, House,
               None, <<>>),
      Property(<<"a", "b">>, Sale, 1, <<"B">>, <<"b">>, StrV(<<"A">>), 1, 2,
               StrV(<<"b">>), IntV(1), << <<"a">> >>),
      Property(<<"B">>, Rent, 0, <<"a">>, <<"A", "b">>, StrV(<<"b">>), 0, 0,
               StrV(<<"b">>), None, <<>>) }

\* documents the store may hold when the process starts: written by other
\* programs or earlier versions, with fields missing or null
LegacyDocs ==
    { [status |-> Sale, price |-> IntV(1), address |-> StrV(<<"b">>),
       city |-> StrV(<<"b">>)],
      [title |-> StrV(<<"b">>), status |-> Sale, price |-> IntV(3),
       address |-> StrV(<<"a">>), city |-> StrV(<<"A", "b">>)],
      [title |-> StrV(<<"A">>), status |-> Rent, price |-> IntV(2),
       address |-> StrV(<<"a">>), city |-> StrV(<<"a">>), bedrooms |-> None,
       bathrooms |-> IntV(2)] }

Statuses == {Sale, Rent}
Texts == {StrV(<<>>), StrV(<<"a">>), StrV(<<".">>), StrV(<<"a", ".">>), StrV(<<"A", "B">>)}
Prices == {None, IntV(1), IntV(2)}

Requests ==
    { Req(None, None, None, None, None, None, None, None, s, IntV(l)) :
        s \in Statuses, l \in {0, 1, 2, LimitDefault, LimitMax, LimitMax + 1} }
    \cup { Req(q, None, None, None, None, None, None, None, s, IntV(LimitDefault)) :
        q \in Texts, s \in Statuses }
    \cup { Req(None, lo, hi, None, None, None, None, None, Sale, IntV(LimitDefault)) :
        lo \in Prices \cup {IntV(-1)}, hi \in Prices }
    \cup { Req(None, None, None, b, h, None, None, None, Sale, IntV(LimitDefault)) :
        b \in {None, IntV(0), IntV(2)}, h \in {None, FloatV(0), FloatV(3)} }
    \cup { Req(None, None, None, None, None, c, None, None, s, IntV(LimitDefault)) :
        c \in Texts, s \in Statuses }
    \cup { Req(None, None, None, None, None, None, st, pt, Sale, IntV(LimitDefault)) :
        st \in {None, StrV(<<>>), StrV(<<"a">>)},
        pt \in {None, StrV(<<>>), StrV(<<"H", "o", "u", "s", "e">>), StrV(<<"b">>)} }
    \cup { Req(q, lo, None, None, None, c, None, None, Sale, IntV(l)) :
        q \in {None, StrV(<<>>), StrV(<<"a">>)}, lo \in {None, IntV(2)},
        c \in {None, StrV(<<>>), StrV(<<"A", "B">>)}, l \in {1, LimitDefault} }

(***************************************************************************)
(* The state machine.                                                      *)
(***************************************************************************)
Database == [k |-> "Database"]

\* the identifiers the store assigns: one per document, in insertion order
WithIds(docs) == [i \in 1..Len(docs) |-> ("_id" :> Oid(i)) @@ docs[i]]

LegacyStores ==
    UNION { [1..n -> LegacyDocs] : n \in 0..MaxLegacy }

Init ==
    /\ db \in {Database, None}
    /\ \E docs \in LegacyStores :
          /\ db = None => docs = <<>>
          /\ store = WithIds(docs)
    /\ nextId = Len(store) + 1
    /\ lastReq = [op |-> "none"]
    /\ lastResp = [code |-> 0]

\* GET /properties
ListProperties ==
    \E r \in Requests :
        /\ lastReq' = r
        /\ lastResp' = ListResponse(db, store, r)
        /\ UNCHANGED <<db, store, nextId>>

\* create_document: the payload becomes a new document, last in insertion
\* order, under the identifier the store assigns
CreateDocument(docs, id, p) == Append(docs, ("_id" :> Oid(id)) @@ p)

\* POST /properties: create_document inserts the payload and returns the new
\* identifier as a string; without a store the request fails
CreateProperty ==
    \E p \in Payloads :
        /\ Len(store) < MaxStore
        /\ lastReq' = [op |-> "create", payload |-> p]
        /\ IF db = None
           THEN /\ lastResp' = [code |-> 500, detail |-> "Database not available"]
                /\ UNCHANGED <<store, nextId>>
           ELSE /\ store' = CreateDocument(store, nextId, p)
                /\ nextId' = nextId + 1
                /\ lastResp' = [code |-> 200, body |-> ToStr(Oid(nextId))]
        /\ UNCHANGED db

Next == ListProperties \/ CreateProperty

Spec == Init /\ [][Next]_vars

(***************************************************************************)
(* What the specification means by its matching rules, stated without the  *)
(* store's regular expressions.                                            *)
(***************************************************************************)
LowerStr(s) == [i \in 1..Len(s) |-> Lower(s[i])]

EqualIgnoringCase(a, b) == LowerStr(a) = LowerStr(b)

ContainsIgnoringCase(s, q) ==
    \E off \in 0..(Len(s) - Len(q)) :
        \A i \in 1..Len(q) : Lower(q[i]) = Lower(s[off + i])

NonEmpty(x) == x # None /\ x # StrV(<<>>)

TextFields == {"title", "city", "state", "address"}
ExactFields == {"city", "state", "property_type"}

HasStr(d, f) == f \in DOMAIN d /\ d[f].k = "str"
HasNum(d, f) == f \in DOMAIN d /\ IsNum(d[f])

QOccurs(d, q) == \E f \in TextFields : HasStr(d, f) /\ ContainsIgnoringCase(d[f].v, q)

\* d meets every constraint of request r that is present
SatisfiesAll(r, d) ==
    /\ Get(d, "status") = r.status
    /\ r.min_price # None => HasNum(d, "price") /\ Num(d.price) >= Num(r.min_price)
    /\ r.max_price # None => HasNum(d, "price") /\ Num(d.price) <= Num(r.max_price)
    /\ r.bedrooms # None => HasNum(d, "bedrooms") /\ Num(d.bedrooms) >= Num(r.bedrooms)
    /\ r.bathrooms # None =>
          HasNum(d, "bathrooms") /\ Num(d.bathrooms) >= Num(r.bathrooms)
    /\ \A f \in ExactFields :
          NonEmpty(r[f]) => HasStr(d, f) /\ EqualIgnoringCase(d[f].v, r[f].v)
    /\ NonEmpty(r.q) => QOccurs(d, r.q.v)

Criteria == {"q", "min_price", "max_price", "bedrooms", "bathrooms", "city", "state",
             "property_type"}

\* the criteria of r, apart from the status, that are not absent
Present(r) == {c \in Criteria : r[c] # None}

Stored == {store[i] : i \in 1..Len(store)}
IdOf(d) == ToStr(d["_id"])
Ids(S) == {IdOf(d) : d \in S}

\* the last request was a search that reached the store
Served == lastReq.op = "list" /\ ParamsValid(lastReq) /\ db # None
Ok == Served /\ lastResp.code = 200
Body == lastResp.body
BodyIds == {Body[i].id : i \in 1..Len(Body)}
Uncapped == lastReq.limit.v >= Len(store)

\* the same value, an int and a float of the same number being the same
Same(a, b) == IF IsNum(a) /\ IsNum(b) THEN Num(a) = Num(b) ELSE a = b

----------------------------------------------------------------------------
(* C1: a search whose only constraint is the status, with a cap of at least *)
(* the number of stored records, returns exactly the stored records with   *)
(* that status, each once.                                                 *)
C1_StatusOnlyExact ==
    Served /\ Present(lastReq) = {} /\ Uncapped =>
        /\ lastResp.code = 200
        /\ BodyIds = Ids({d \in Stored : Get(d, "status") = lastReq.status})
        /\ Len(Body) = Cardinality(BodyIds)

(* C2: with both price bounds and min_price <= max_price every returned    *)
(* record's price lies between them; with min_price > max_price the search *)
(* succeeds with an empty result; with one bound only, the records         *)
(* returned are those at or beyond that bound, the other side open.        *)
C2_PriceRange ==
    Served =>
        LET lo == lastReq.min_price
            hi == lastReq.max_price
        IN /\ lo # None /\ hi # None /\ Num(lo) > Num(hi) =>
                 lastResp.code = 200 /\ Body = <<>>
           /\ lastResp.code = 200 =>
                 \A i \in 1..Len(Body) :
                    /\ lo # None => Num(Body[i].price) >= Num(lo)
                    /\ hi # None => Num(Body[i].price) <= Num(hi)
           /\ lastResp.code = 200 /\ Uncapped /\ Present(lastReq) = {"min_price"} =>
                 BodyIds = Ids({d \in Stored :
                                  /\ Get(d, "status") = lastReq.status
                                  /\ HasNum(d, "price")
                                  /\ Num(d.price) >= Num(lo)})
           /\ lastResp.code = 200 /\ Uncapped /\ Present(lastReq) = {"max_price"} =>
                 BodyIds = Ids({d \in Stored :
                                  /\ Get(d, "status") = lastReq.status
                                  /\ HasNum(d, "price")
                                  /\ Num(d.price) <= Num(hi)})

\* a search with 1 <= price <= 2 has returned a record, and the store also
\* holds a record of that status outside the range
C2_Witness ==
    /\ Ok
    /\ lastReq.min_price = IntV(1) /\ lastReq.max_price = IntV(2)
    /\ Len(Body) >= 1
    /\ \E d \in Stored :
          Get(d, "status") = lastReq.status /\ HasNum(d, "price") /\ Num(d.price) > 4

(* C3: with a non-empty city, state or property_type criterion a stored    *)
(* record matches exactly when its field equals the criterion ignoring     *)
(* letter case.                                                            *)
C3_ExactIgnoringCase ==
    \A f \in ExactFields :
        Ok /\ Present(lastReq) = {f} /\ NonEmpty(lastReq[f]) /\ Uncapped =>
            BodyIds = Ids({d \in Stored :
                             /\ Get(d, "status") = lastReq.status
                             /\ HasStr(d, f)
                             /\ EqualIgnoringCase(d[f].v, lastReq[f].v)})

(* C4: with a non-empty q a stored record of the requested status is       *)
(* returned exactly when q occurs, ignoring case, as a substring of its    *)
(* title, city, state or address.                                          *)
C4_FreeTextSubstring ==
    Ok /\ Present(lastReq) = {"q"} /\ NonEmpty(lastReq.q) /\ Uncapped =>
        BodyIds = Ids({d \in Stored :
                         Get(d, "status") = lastReq.status /\ QOccurs(d, lastReq.q.v)})

(* C5: every returned record meets all the present constraints at once,    *)
(* and a search with one more criterion matches no record the search       *)
(* without it does not match.                                              *)
C5_AllConstraints ==
    Ok =>
        /\ \A i \in 1..Len(Body) : SatisfiesAll(lastReq, Body[i])
        /\ \A r \in Requests :
              /\ r.status = lastReq.status
              /\ \A c \in Criteria : lastReq[c] # None => r[c] = lastReq[c]
              => \A d \in Stored :
                    MatchesFilter(FilterQuery(r), d)
                       => MatchesFilter(FilterQuery(lastReq), d)

\* the stored document an output record was made from
DocOf(o) == CHOOSE d \in Stored : IdOf(d) = o.id

DefaultedFields == {"currency", "country", "bedrooms", "bathrooms", "property_type",
                    "images", "features"}
DefaultOf(f) ==
    CASE f = "currency" -> USD
      [] f = "country" -> USA
      [] f = "bedrooms" -> IntV(0)
      [] f = "bathrooms" -> FloatV(0)
      [] f = "property_type" -> House
      [] OTHER -> ListV(<<>>)

(* C6: every output record has bedrooms, bathrooms, images and features    *)
(* present, never None; a field with a default that the raw record lacks   *)
(* holds the default (0, 0.0, [], [], "USD", "USA", "house"), and a field  *)
(* the raw record has is passed through unchanged.                         *)
C6_DefaultsNeverNone ==
    Ok =>
        \A i \in 1..Len(Body) :
            LET o == Body[i]
                d == DocOf(o)
            IN /\ o.bedrooms.k = "int" /\ o.bathrooms.k = "float"
               /\ o.images.k = "list" /\ o.features.k = "list"
               /\ \A f \in DefaultedFields \ DOMAIN d : o[f] = DefaultOf(f)
               /\ \A f \in (DOMAIN d) \ {"_id"} : Same(o[f], d[f])

\* a search has returned a record made from a raw record that lacks
\* bedrooms, bathrooms, images and features
C6_Witness ==
    /\ Ok
    /\ \E i \in 1..Len(Body) :
          {"bedrooms", "bathrooms", "images", "features"} \cap DOMAIN DocOf(Body[i]) = {}

ExpectedFields == {"title", "status", "price", "address", "city"}

(* C7: a search never fails on a matched record that lacks a field: it     *)
(* returns an output record for every record found, with None for each     *)
(* expected field the record lacks.                                        *)
C7_MissingFieldTolerated ==
    Served =>
        LET found == Find(store, FilterQuery(lastReq), lastReq.limit.v)
        IN /\ lastResp.code = 200
           /\ Len(Body) = Len(found)
           /\ \A i \in 1..Len(found) :
                 /\ Body[i].id = IdOf(found[i])
                 /\ \A f \in ExpectedFields \ DOMAIN found[i] : Body[i][f] = None

(* C8: a search with a cap in [1, 200] returns exactly min(cap, number of  *)
(* stored records matching the predicate) records, each a matching stored  *)
(* record, each at most once.                                              *)
C8_ResultCap ==
    Served =>
        LET matching == {d \in Stored : MatchesFilter(FilterQuery(lastReq), d)}
        IN /\ lastResp.code = 200
           /\ Len(Body) = Min(lastReq.limit.v, Cardinality(matching))
           /\ BodyIds \subseteq Ids(matching)
           /\ Len(Body) = Cardinality(BodyIds)

\* the step is a create that reached the store
CreateStep == lastReq'.op = "create" /\ db # None /\ store' # store

\* a create adds one record, the payload under a new identifier, which it
\* returns, and leaves the earlier records as they were
CreateAddsOne ==
    CreateStep =>
        /\ Len(store') = Len(store) + 1
        /\ SubSeq(store', 1, Len(store)) = store
        /\ LET new == store'[Len(store')]
           IN /\ IdOf(new) \notin Ids(Stored)
              /\ lastResp'.code = 200 /\ lastResp'.body = IdOf(new)
              /\ [f \in (DOMAIN new) \ {"_id"} |-> new[f]] = lastReq'.payload

\* a stored record that a create made
Created(d) == [f \in (DOMAIN d) \ {"_id"} |-> d[f]] \in Payloads

\* a search by a text that occurs in the title of one created record, and in
\* no text field of any other record of that status, returns that record
RoundTrip ==
    Served /\ Present(lastReq) = {"q"} /\ NonEmpty(lastReq.q) =>
        LET hits == {d \in Stored :
                       Get(d, "status") = lastReq.status /\ QOccurs(d, lastReq.q.v)}
        IN \A d \in hits :
              hits = {d} /\ Created(d) /\ ContainsIgnoringCase(d.title.v, lastReq.q.v) =>
                 /\ lastResp.code = 200
                 /\ Len(Body) = 1
                 /\ Body[1].id = IdOf(d)
                 /\ \A f \in (DOMAIN d) \ {"_id"} : Body[1][f] = d[f]

(* C9: each create adds exactly one record under a new identifier and      *)
(* leaves the earlier records unchanged, and a search matching one created *)
(* record's title returns exactly that record, with the identifier the     *)
(* create returned and the fields of the created input.                    *)
C9_CreateRoundTrip == [][CreateAddsOne /\ RoundTrip']_vars

(* C10: an empty-string q, city, state or property_type adds no            *)
(* constraint: the search answers as it does with the parameter absent.    *)
C10_EmptyStringIsAbsent ==
    lastReq.op = "list" =>
        \A p \in {"q", "city", "state", "property_type"} :
            lastReq[p] = StrV(<<>>) =>
                lastResp = ListResponse(db, store, [lastReq EXCEPT ![p] = None])

\* a search with city "" has returned a record whose city is not empty
C10_Witness ==
    /\ Ok
    /\ lastReq.city = StrV(<<>>)
    /\ \E i \in 1..Len(Body) : Body[i].city # StrV(<<>>)

====
